---- MODULE Spec2Model ----
(***************************************************************************)
(* HMIpixelsize.ipynb: the notebook that reads CDELT2 from the header of a *)
(* HMI FITS file, computes the pixel size dx and the pixel area, and       *)
(* prints both.  The kernel executes the code cells from top to bottom     *)
(* and stops at the first cell that raises.                                *)
(*                                                                         *)
(* Numbers are exact rationals.  Numerators and denominators are natural   *)
(* numbers of any size, kept as sequences of base-10000 digits, least      *)
(* significant first, without leading zeros (so the empty sequence is 0).  *)
(* np.pi is the decimal 3.141592653589793 that Python prints for it.       *)
(***************************************************************************)
EXTENDS Integers, Sequences, FiniteSets, TLC

\* ------------------------------------------------------------------ bounds
\* CDELT values of the header range over k/100, k in -MaxHundredths..MaxHundredths
MaxHundredths == 100
\* number of files the pattern './hmi*.fits' may match
MaxFiles == 2

\* ------------------------------------------------- natural-number arithmetic
RECURSIVE BigOf(_)
BigOf(k) == IF k = 0 THEN <<>> ELSE <<k % 10000>> \o BigOf(k \div 10000)

RECURSIVE BigNorm(_)
BigNorm(a) ==
    IF a = <<>> THEN <<>>
    ELSE IF a[Len(a)] = 0 THEN BigNorm(SubSeq(a, 1, Len(a) - 1))
    ELSE a

RECURSIVE BigAddC(_, _, _)
BigAddC(a, b, carry) ==
    IF a = <<>> /\ b = <<>>
    THEN IF carry = 0 THEN <<>> ELSE <<carry>>
    ELSE LET x == IF a = <<>> THEN 0 ELSE Head(a)
             y == IF b = <<>> THEN 0 ELSE Head(b)
             s == x + y + carry
         IN  <<s % 10000>> \o
             BigAddC(IF a = <<>> THEN <<>> ELSE Tail(a),
                     IF b = <<>> THEN <<>> ELSE Tail(b),
                     s \div 10000)

BigAdd(a, b) == BigAddC(a, b, 0)

\* a - b - borrow, for a >= b + borrow
RECURSIVE BigSubB(_, _, _)
BigSubB(a, b, borrow) ==
    IF a = <<>> THEN <<>>
    ELSE LET y == IF b = <<>> THEN 0 ELSE Head(b)
             s == Head(a) - y - borrow
         IN  <<s % 10000>> \o
             BigSubB(Tail(a), IF b = <<>> THEN <<>> ELSE Tail(b),
                     IF s < 0 THEN 1 ELSE 0)

BigSub(a, b) == BigNorm(BigSubB(a, b, 0))

\* a * m + carry for one digit m
RECURSIVE BigMulDigit(_, _, _)
BigMulDigit(a, m, carry) ==
    IF a = <<>>
    THEN IF carry = 0 THEN <<>> ELSE <<carry>>
    ELSE LET s == Head(a) * m + carry
         IN  <<s % 10000>> \o BigMulDigit(Tail(a), m, s \div 10000)

BigShift(a) == IF a = <<>> THEN <<>> ELSE <<0>> \o a

RECURSIVE BigMul(_, _)
BigMul(a, b) ==
    IF a = <<>> \/ b = <<>> THEN <<>>
    ELSE BigAdd(BigNorm(BigMulDigit(a, Head(b), 0)), BigShift(BigMul(a, Tail(b))))

\* -1, 0, 1 as a < b, a = b, a > b
RECURSIVE BigCmpFrom(_, _, _)
BigCmpFrom(a, b, i) ==
    IF i = 0 THEN 0
    ELSE IF a[i] < b[i] THEN -1
    ELSE IF a[i] > b[i] THEN 1
    ELSE BigCmpFrom(a, b, i - 1)

BigCmp(a, b) ==
    IF Len(a) < Len(b) THEN -1
    ELSE IF Len(a) > Len(b) THEN 1
    ELSE BigCmpFrom(a, b, Len(a))

\* ------------------------------------------------------ rational arithmetic
\* [neg, n, d] is (-1)^neg * n / d, with d > 0 and neg = FALSE when n = 0
Rat(neg, n, d) == [neg |-> neg /\ n # <<>>, n |-> n, d |-> d]

RatOfInt(k) == IF k < 0 THEN Rat(TRUE, BigOf(-k), BigOf(1))
                        ELSE Rat(FALSE, BigOf(k), BigOf(1))

RatOfFrac(k, den) == IF k < 0 THEN Rat(TRUE, BigOf(-k), BigOf(den))
                              ELSE Rat(FALSE, BigOf(k), BigOf(den))

RatMul(x, y) == Rat(x.neg # y.neg, BigMul(x.n, y.n), BigMul(x.d, y.d))

\* x / y for y # 0
RatDiv(x, y) == Rat(x.neg # y.neg, BigMul(x.n, y.d), BigMul(x.d, y.n))

RatNeg(x) == Rat(~x.neg, x.n, x.d)

RatAdd(x, y) ==
    LET a == BigMul(x.n, y.d)
        b == BigMul(y.n, x.d)
        d == BigMul(x.d, y.d)
    IN  IF x.neg = y.neg THEN Rat(x.neg, BigAdd(a, b), d)
        ELSE IF BigCmp(a, b) >= 0 THEN Rat(x.neg, BigSub(a, b), d)
        ELSE Rat(y.neg, BigSub(b, a), d)

RatSub(x, y) == RatAdd(x, RatNeg(y))

RatIsZero(x) == x.n = <<>>

RatSign(x) == IF x.n = <<>> THEN 0 ELSE IF x.neg THEN -1 ELSE 1

\* equality and order of the values, whatever the representation
RatEq(x, y) == RatIsZero(RatSub(x, y))
RatLt(x, y) == RatSign(RatSub(x, y)) < 0
RatLe(x, y) == RatSign(RatSub(x, y)) <= 0

\* ------------------------------------------------------------ Python values
Undefined == [kind |-> "undef"]
Float(r) == [kind |-> "float", v |-> r]
Str == [kind |-> "str"]
KeyErrorRaised == [kind |-> "KeyError"]

\* the literals of the notebook
np_pi == Rat(FALSE, <<9793, 5358, 5926, 3141>>, <<0, 0, 0, 1000>>)
SolarRadius == 695500000

\* ------------------------------------------------------------------ inputs
\* CDELT1/CDELT2 of the header: a float k/100, or (CDELT2 only) a string card
CdeltFloats == {Float(RatOfFrac(k, 100)) : k \in -MaxHundredths..MaxHundredths}
Cdelt1Values == {Float(RatOfFrac(3, 100)), Float(RatOfFrac(50, 100))}
RsunRefValues == {Float(RatOfInt(SolarRadius)), Float(RatOfInt(696000000))}

Headers ==
    [CDELT1 : Cdelt1Values, CDELT2 : CdeltFloats \cup {Str}, RSUN_REF : RsunRefValues]
    \cup [CDELT1 : Cdelt1Values, RSUN_REF : RsunRefValues]

VARIABLES
    files,   \* number of files './hmi*.fits' matches
    header,  \* header of the first matched file (empty when there is none)
    pc,      \* next cell to execute, "done", or "aborted"
    err,     \* the exception that stopped the run, "none" while there is none
    meta,    \* kernel variable meta
    dx,      \* kernel variable dx
    Out,     \* value displayed by the comparison cell
    area,    \* kernel variable area
    stdout   \* lines printed so far

vars == <<files, header, pc, err, meta, dx, Out, area, stdout>>

\* ------------------------------------------------------------ the notebook
\* meta.get('CDELT2', 0.5) in place of meta['CDELT2']
GetItemDefault(m, k) == IF k \in DOMAIN m THEN m[k] ELSE Float(RatOfFrac(50, 100))

\* meta['CDELT2']
GetItem(m, k) == IF k \in DOMAIN m THEN m[k] ELSE KeyErrorRaised

\* sunpy.map.Map(path).meta : the exception it raises, "none" if it returns
MapMetaRaises(n) ==
    IF n = 0 THEN "LoadError"
    ELSE IF n > 1 THEN "AttributeError"
    ELSE "none"

\* variants of the dx expression: /180 for /360, the 6.96e8 of the prose for
\* 6.955e8, meta['RSUN_REF'] for the literal, + for the second *
PixelSize180(m) ==
    RatDiv(RatMul(RatMul(RatMul(RatOfInt(2), np_pi), GetItem(m, "CDELT2").v),
                  RatOfInt(SolarRadius)),
           RatOfInt(180))

PixelSize696(m) ==
    RatDiv(RatMul(RatMul(RatMul(RatOfInt(2), np_pi), GetItem(m, "CDELT2").v),
                  RatOfInt(696000000)),
           RatOfInt(360))

PixelSizeRsunRef(m) ==
    RatDiv(RatMul(RatMul(RatMul(RatOfInt(2), np_pi), GetItem(m, "CDELT2").v),
                  GetItem(m, "RSUN_REF").v),
           RatOfInt(360))

PixelSizePlus(m) ==
    RatDiv(RatMul(RatAdd(RatMul(RatOfInt(2), np_pi), GetItem(m, "CDELT2").v),
                  RatOfInt(SolarRadius)),
           RatOfInt(360))

\* 2*np.pi*c*6.955e8/360, evaluated left to right
PixelSize(m) ==
    RatDiv(RatMul(RatMul(RatMul(RatOfInt(2), np_pi), GetItem(m, "CDELT2").v),
                  RatOfInt(SolarRadius)),
           RatOfInt(360))

\* the dx assignment behind a check that rejects c < 0, or c <= 0
DxRaisesOnNegative(m) ==
    LET c == GetItem(m, "CDELT2")
    IN  IF c.kind = "KeyError" THEN "KeyError"
        ELSE IF c.kind = "str" THEN "TypeError"
        ELSE IF RatSign(c.v) < 0 THEN "InvalidArgument"
        ELSE "none"

DxRaisesOnNonPositive(m) ==
    LET c == GetItem(m, "CDELT2")
    IN  IF c.kind = "KeyError" THEN "KeyError"
        ELSE IF c.kind = "str" THEN "TypeError"
        ELSE IF RatSign(c.v) <= 0 THEN "InvalidArgument"
        ELSE "none"

\* the exception raised by the dx assignment, "none" if it completes
DxRaises(m) ==
    LET c == GetItem(m, "CDELT2")
    IN  IF c.kind = "KeyError" THEN "KeyError"
        ELSE IF c.kind = "str" THEN "TypeError"
        ELSE "none"

\* (dx/1000-362.5)/100
Difference(x) ==
    RatDiv(RatSub(RatDiv(x, RatOfInt(1000)), RatOfFrac(3625, 10)),
           RatOfInt(100))

\* np.multiply(x, n) in place of np.power(x, n)
multiply(x, n) == RatMul(x, RatOfInt(n))

\* np.power(x, n) for a natural n
RECURSIVE power(_, _)
power(x, n) == IF n = 0 THEN RatOfInt(1) ELSE RatMul(x, power(x, n - 1))

\* f'The HMI pixel size is {dx} meters.'
SizeLine(x) == [head |-> "The HMI pixel size is ", value |-> x, tail |-> " meters."]

\* the area line with the unit of the size line
AreaLineMeters(a) == [head |-> "The HMI pixel area is ", value |-> a, tail |-> " meters."]

\* f'The HMI pixel area is {area} meters squared.'
AreaLine(a) == [head |-> "The HMI pixel area is ", value |-> a, tail |-> " meters squared."]

Init ==
    /\ files \in 0..MaxFiles
    /\ header \in IF files = 0 THEN {<<>>} ELSE Headers
    /\ pc = "cell1"
    /\ err = "none"
    /\ meta = Undefined
    /\ dx = Undefined
    /\ Out = Undefined
    /\ area = Undefined
    /\ stdout = <<>>

\* cell 1 stops at  meta = sunpy.map.Map(path).meta
Cell1LoadFails ==
    /\ pc = "cell1"
    /\ MapMetaRaises(files) # "none"
    /\ pc' = "aborted"
    /\ err' = MapMetaRaises(files)
    /\ UNCHANGED <<files, header, meta, dx, Out, area, stdout>>

\* cell 1 stops at  dx = (2*np.pi*meta['CDELT2']*6.955e8/360)
Cell1DxFails ==
    /\ pc = "cell1"
    /\ MapMetaRaises(files) = "none"
    /\ DxRaises(header) # "none"
    /\ meta' = header
    /\ pc' = "aborted"
    /\ err' = DxRaises(header)
    /\ UNCHANGED <<files, header, dx, Out, area, stdout>>

\* cell 1 runs to its end
Cell1 ==
    /\ pc = "cell1"
    /\ MapMetaRaises(files) = "none"
    /\ DxRaises(header) = "none"
    /\ meta' = header
    /\ dx' = Float(PixelSize(header))
    /\ stdout' = Append(stdout, SizeLine(PixelSize(header)))
    /\ pc' = "cell3"
    /\ UNCHANGED <<files, header, err, Out, area>>

\* cell 3: the comparison with the 362.5 km estimate
Cell3 ==
    /\ pc = "cell3"
    /\ Out' = Float(Difference(dx.v))
    /\ pc' = "cell5"
    /\ UNCHANGED <<files, header, err, meta, dx, area, stdout>>

\* cell 5: the area
Cell5 ==
    /\ pc = "cell5"
    /\ area' = Float(power(dx.v, 2))
    /\ stdout' = Append(stdout, AreaLine(power(dx.v, 2)))
    /\ pc' = "done"
    /\ UNCHANGED <<files, header, err, meta, dx, Out>>

Next == Cell1LoadFails \/ Cell1DxFails \/ Cell1 \/ Cell3 \/ Cell5

Spec == Init /\ [][Next]_vars

\* ------------------------------------------------------------- properties
\* the header read by the run holds a float CDELT2
HasCdelt2 == "CDELT2" \in DOMAIN header /\ header["CDELT2"].kind = "float"

\* ... and its value is k/100
Cdelt2Is(k) == HasCdelt2 /\ RatEq(header["CDELT2"].v, RatOfFrac(k, 100))

\* x lies within tol of target
Near(x, target, tol) == RatLe(RatSub(target, tol), x) /\ RatLe(x, RatAdd(target, tol))

\* the formula of section 3: (2 pi cdelt / 360) * solar_radius_m
SpecPixelSize(c, r) ==
    RatMul(RatDiv(RatMul(RatMul(RatOfInt(2), np_pi), c), RatOfInt(360)), r)

\* C1: once cell 1 has run, dx equals (2*pi*c/360)*R for the CDELT2 value c of
\* meta and R = 6.955e8
C1_DxIsSpecFormula ==
    dx.kind = "float" =>
        RatEq(dx.v, SpecPixelSize(meta["CDELT2"].v, RatOfInt(695500000)))

C1_Witness == dx.kind = "float" /\ Cdelt2Is(3)

C3_AreaIsSquare ==
    pc = "done" =>
        /\ Len(stdout) = 2
        /\ stdout[1].value = dx.v
        /\ RatEq(stdout[2].value, RatMul(stdout[1].value, stdout[1].value))

C3_Witness == pc = "done" /\ HasCdelt2 /\ RatSign(header["CDELT2"].v) > 0

\* C4 as stated: with CDELT2 = -1 the run is stopped by an InvalidArgument
\* error and prints nothing
C4_AsStated ==
    (files = 1 /\ Cdelt2Is(-100) /\ pc # "cell1") =>
        pc = "aborted" /\ err = "InvalidArgument" /\ stdout = <<>>

\* C4 amended: with CDELT2 = -1 no error is raised; the run goes on with
\* dx = -(2*pi/360)*6.955e8 < 0, and ends with both lines printed and
\* area = dx^2 > 0
C4_NegativeAccepted ==
    (files = 1 /\ Cdelt2Is(-100) /\ pc # "cell1") =>
        /\ pc # "aborted" /\ err = "none"
        /\ RatSign(dx.v) < 0
        /\ RatEq(dx.v, RatNeg(SpecPixelSize(RatOfInt(1), RatOfInt(695500000))))
        /\ stdout[1].value = dx.v
        /\ pc = "done" =>
              /\ Len(stdout) = 2
              /\ RatSign(area.v) > 0
              /\ RatEq(area.v, RatMul(dx.v, dx.v))

C4_Witness == files = 1 /\ Cdelt2Is(-100) /\ pc = "done" /\ Len(stdout) = 2

\* C5: with CDELT2 = 0 no error is raised, dx is 0, and the run ends with
\* area 0 and both lines printed
C5_ZeroAccepted ==
    (files = 1 /\ Cdelt2Is(0) /\ pc # "cell1") =>
        /\ pc # "aborted" /\ err = "none"
        /\ RatIsZero(dx.v)
        /\ RatIsZero(stdout[1].value)
        /\ pc = "done" =>
              /\ RatIsZero(area.v)
              /\ Len(stdout) = 2
              /\ RatIsZero(stdout[2].value)

C5_Witness == files = 1 /\ Cdelt2Is(0) /\ pc = "done" /\ Len(stdout) = 2

\* C6: when the one header loaded has no CDELT2, nothing is ever printed, and
\* the first step leaves the run aborted by the KeyError with no further step
C6_MissingKeyAborts ==
    (files = 1 /\ "CDELT2" \notin DOMAIN header) =>
        /\ stdout = <<>>
        /\ pc # "cell1" =>
              /\ pc = "aborted" /\ err = "KeyError"
              /\ dx = Undefined /\ area = Undefined
              /\ ~ENABLED Next

C6_Witness == files = 1 /\ "CDELT2" \notin DOMAIN header /\ pc = "aborted"

\* the mapping m with its CDELT2 doubled
Doubled(m) == [m EXCEPT !["CDELT2"] = Float(RatMul(RatOfInt(2), m["CDELT2"].v))]

\* C7: the pixel size of the header with CDELT2 doubled is twice dx
C7_DoublingDoubles ==
    dx.kind = "float" =>
        RatEq(PixelSize(Doubled(meta)), RatMul(RatOfInt(2), dx.v))

C7_Witness == dx.kind = "float" /\ Cdelt2Is(50)

C9_OnlyCdelt2Matters ==
    dx.kind = "float" =>
        \A h \in Headers :
            ("CDELT2" \in DOMAIN h /\ h["CDELT2"] = header["CDELT2"]) =>
                /\ PixelSize(h) = dx.v
                /\ pc = "done" => power(PixelSize(h), 2) = area.v

C9_Witness ==
    /\ pc = "done"
    /\ Cdelt2Is(3)
    /\ \E h \in Headers :
          /\ "CDELT2" \in DOMAIN h /\ h["CDELT2"] = header["CDELT2"]
          /\ h["RSUN_REF"] # header["RSUN_REF"]
          /\ h["CDELT1"] # header["CDELT1"]

\* C10: the value of the comparison cell is 100*(dx/1000 - 362.5)/362.5
C10_PercentDifference ==
    Out.kind = "float" =>
        RatEq(Out.v,
              RatDiv(RatMul(RatOfInt(100),
                            RatSub(RatDiv(dx.v, RatOfInt(1000)), RatOfFrac(3625, 10))),
                     RatOfFrac(3625, 10)))
====
